---------------------------- MODULE Spec2Model ----------------------------
(***************************************************************************)
(* Model of the TOPSIS engine of src/app.py (normalize_matrix ..           *)
(* perform_topsis_calculation, lines 93-157) and of the endpoint that      *)
(* calls it and builds the ranking (calculate_topsis, lines 394-434).      *)
(*                                                                         *)
(* Numbers.  The code computes in IEEE doubles.  The model computes in     *)
(* exact real arithmetic and keeps the one IEEE special value the code     *)
(* produces on these inputs, NaN (0/0), which propagates through every     *)
(* operation and compares false with everything.  Rounding, overflow and   *)
(* underflow are not modelled.  The reals that occur are kept in closed    *)
(* form:                                                                   *)
(*   - a raw value or a weight is an integer;                              *)
(*   - an entry of the normalized or weighted matrix, or of an ideal       *)
(*     point, is  num / sqrt(rad)  : [nan, num, rad];                      *)
(*   - a rational is  n / d  with d > 0 : [n, d];                          *)
(*   - a distance is  sqrt(sq)  for a rational sq : [nan, sq];             *)
(*   - a preference value is  sqrt(num) / (sqrt(den[1]) + sqrt(den[2]))    *)
(*     for rationals num, den[1], den[2] : [nan, num, den].                *)
(* Every comparison below is exact.                                        *)
(***************************************************************************)
EXTENDS Integers, Sequences, FiniteSets, TLC

\* Bounds of the model: alternatives (rows), criteria (columns), the raw
\* values 0..MaxVal and the weights 0..MaxWeight.
MaxAlt == 3
MaxCrit == 2
MaxVal == 2
MaxWeight == 2

VARIABLES
    project,    \* the stored project calculate_topsis reads: criteria, alternatives
    call,       \* the arguments of a direct call of perform_topsis_calculation
    outcome,    \* what that call returned or raised
    response,   \* the answer of calculate_topsis, or of the last request
    db,         \* the database: users, projects, criteria, alternatives, values
    tokens,     \* the identities of the access tokens login has issued
    request     \* the last request: endpoint, identity, project id

vars == <<project, call, outcome, response, db, tokens, request>>

--------------------------------------------------------------------------
(* Exact arithmetic *)

NaN == [nan |-> TRUE, num |-> 0, rad |-> 1]

\* x / sqrt(s), the division of line 96.  s is a column's sum of squares, so
\* s = 0 only when x = 0: the quotient is then 0/0, which is NaN.
DivSqrt(x, s) ==
    IF s = 0 THEN NaN ELSE [nan |-> FALSE, num |-> x, rad |-> s]

\* e * w for an entry e and a weight w (NaN * w is NaN, also for w = 0).
Mul(e, w) ==
    IF e.nan THEN NaN ELSE [nan |-> FALSE, num |-> e.num * w, rad |-> e.rad]

Sign(x) == IF x > 0 THEN 1 ELSE IF x < 0 THEN -1 ELSE 0

\* a <= b for two entries; false when either is NaN.
EntryLe(a, b) ==
    /\ ~a.nan
    /\ ~b.nan
    /\ LET sa == Sign(a.num)
           sb == Sign(b.num)
           qa == a.num * a.num * b.rad
           qb == b.num * b.num * a.rad
       IN  IF sa # sb THEN sa < sb
           ELSE IF sa >= 0 THEN qa <= qb
           ELSE qb <= qa

EntryEq(a, b) == EntryLe(a, b) /\ EntryLe(b, a)

EntryIsZero(a) == ~a.nan /\ a.num = 0

\* Rationals n / d, d > 0.
R0 == [n |-> 0, d |-> 1]
R1 == [n |-> 1, d |-> 1]

RAdd(p, q) ==
    IF p.d = q.d THEN [n |-> p.n + q.n, d |-> p.d]
    ELSE [n |-> p.n * q.d + q.n * p.d, d |-> p.d * q.d]

RSub(p, q) == RAdd(p, [n |-> -q.n, d |-> q.d])

RMul(p, q) == [n |-> p.n * q.n, d |-> p.d * q.d]

RLe(p, q) ==
    IF p.d = q.d THEN p.n <= q.n ELSE p.n * q.d <= q.n * p.d

RLt(p, q) == ~RLe(q, p)

REq(p, q) == RLe(p, q) /\ RLe(q, p)

\* sqrt(p) <= k + sqrt(q) for rationals p, q >= 0 and a rational k.
SurdLeShift(p, k, q) ==
    IF RLe(R0, k)
    THEN \/ RLe(p, q)
         \/ LET l == RSub(RSub(p, RMul(k, k)), q)     \* p - k^2 - q <= 2k sqrt(q)
            IN  \/ RLe(l, R0)
                \/ RLe(RMul(l, l), RMul([n |-> 4, d |-> 1], RMul(RMul(k, k), q)))
    ELSE LET l == RSub(RSub(q, p), RMul(k, k))        \* q - p - k^2 >= 2|k| sqrt(p)
         IN  /\ RLe(R0, l)
             /\ RLe(RMul([n |-> 4, d |-> 1], RMul(RMul(k, k), p)), RMul(l, l))

\* sqrt(a) + sqrt(b) <= sqrt(c) + sqrt(e) for rationals >= 0.  A term the two
\* sides share cancels; otherwise both sides are squared.
SurdSumLe(a, b, c, e) ==
    IF REq(b, e) THEN RLe(a, c)
    ELSE IF REq(a, c) THEN RLe(b, e)
    ELSE IF REq(a, e) THEN RLe(b, c)
    ELSE IF REq(b, c) THEN RLe(a, e)
    ELSE SurdLeShift(RMul([n |-> 4, d |-> 1], RMul(a, b)),
                     RSub(RAdd(c, e), RAdd(a, b)),
                     RMul([n |-> 4, d |-> 1], RMul(c, e)))

--------------------------------------------------------------------------
(* Arrays: [shape, rows].  shape is <<m, n>>, or <<0>> for np.array([]). *)

\* np.array(alternatives_data), line 131, for a rectangular list of rows.
Array(alternatives_data) ==
    IF Len(alternatives_data) = 0
    THEN [shape |-> <<0>>, rows |-> <<>>]
    ELSE [shape |-> <<Len(alternatives_data), Len(alternatives_data[1])>>,
          rows |-> alternatives_data]

\* The last dimension of an array, the one a 1-D operand is broadcast along.
LastDim(a) == a.shape[Len(a.shape)]

NRows(a) == IF Len(a.shape) = 2 THEN a.shape[1] ELSE 0

RECURSIVE SumSqTo(_, _, _)
SumSqTo(rows, j, i) ==
    IF i = 0 THEN 0 ELSE SumSqTo(rows, j, i - 1) + rows[i][j] * rows[i][j]

\* np.sum(matrix**2, axis=0)[j], line 95: the square of denominator[j].
SumSq(matrix, j) == SumSqTo(matrix.rows, j, NRows(matrix))


--------------------------------------------------------------------------
(* The five stages, lines 93-126.  A stage that raises returns             *)
(* [raised |-> <the exception>]; one that returns has raised = "none".     *)

Raise(exc) == [raised |-> exc]

\* normalize_matrix, lines 93-96.  For the 1-D empty array the sum over axis 0
\* is a scalar and the quotient is the empty array again.
normalize_matrix(matrix) ==
    IF Len(matrix.shape) = 1
    THEN matrix
    ELSE [shape |-> matrix.shape,
          rows |-> [i \in 1..matrix.shape[1] |->
                      [j \in 1..matrix.shape[2] |->
                          DivSqrt(matrix.rows[i][j], SumSq(matrix, j))]]]

\* numpy's broadcasting of a last dimension d against a 1-D operand of length k.
BroadcastOK(d, k) == d = k \/ d = 1 \/ k = 1

BroadcastDim(d, k) == IF d = 1 THEN k ELSE d

\* calculate_weighted_matrix, lines 98-100: normalized_matrix * weights, with
\* numpy's broadcasting; operands that do not broadcast raise ValueError.
calculate_weighted_matrix(normalized_matrix, weights) ==
    LET d == LastDim(normalized_matrix)
        k == Len(weights)
        c == BroadcastDim(d, k)
    IN  IF ~BroadcastOK(d, k) THEN Raise("ValueError")
        ELSE IF Len(normalized_matrix.shape) = 1
        THEN [raised |-> "none", shape |-> <<c>>, rows |-> <<>>]
        ELSE [raised |-> "none",
              shape |-> <<normalized_matrix.shape[1], c>>,
              rows |-> [i \in 1..normalized_matrix.shape[1] |->
                          [j \in 1..c |->
                              Mul(normalized_matrix.rows[i][IF d = 1 THEN 1 ELSE j],
                                  weights[IF k = 1 THEN 1 ELSE j])]]]

Column(a, j) == {a.rows[i][j] : i \in 1..a.shape[1]}

\* ndarray.max() and .min() of a column: NaN when the column holds a NaN.
ColMax(a, j) ==
    IF \E x \in Column(a, j) : x.nan THEN NaN
    ELSE CHOOSE x \in Column(a, j) : \A y \in Column(a, j) : EntryLe(y, x)

ColMin(a, j) ==
    IF \E x \in Column(a, j) : x.nan THEN NaN
    ELSE CHOOSE x \in Column(a, j) : \A y \in Column(a, j) : EntryLe(x, y)

\* IdealPlus with the cost branch forgotten: the maximum whatever the type.
IdealPlus_IgnoringCost(a, j, criterion_type) == ColMax(a, j)

\* The branch of lines 108-113: 'benefit' takes the first branch, every other
\* string the else branch.
IdealPlus(a, j, criterion_type) ==
    IF criterion_type = "benefit" THEN ColMax(a, j) ELSE ColMin(a, j)

IdealMinus(a, j, criterion_type) ==
    IF criterion_type = "benefit" THEN ColMin(a, j) ELSE ColMax(a, j)

\* find_ideal_solutions, lines 102-115.  shape[1] of a 1-D array raises
\* IndexError (line 104), and so does criteria_types[j] past the list's end
\* (line 108); entries of criteria_types past the last column are never read.
find_ideal_solutions(weighted_matrix, criteria_types) ==
    IF Len(weighted_matrix.shape) < 2 THEN Raise("IndexError")
    ELSE IF weighted_matrix.shape[2] > Len(criteria_types) THEN Raise("IndexError")
    ELSE [raised |-> "none",
          A_plus |-> [j \in 1..weighted_matrix.shape[2] |->
                         IdealPlus(weighted_matrix, j, criteria_types[j])],
          A_minus |-> [j \in 1..weighted_matrix.shape[2] |->
                         IdealMinus(weighted_matrix, j, criteria_types[j])]]

\* (w - a)**2 for an entry w and the ideal a of w's column: both are multiples
\* of 1/sqrt(rad) of that column.  [nan, sq].
SqDiff(w, a) ==
    IF w.nan \/ a.nan THEN [nan |-> TRUE, sq |-> R0]
    ELSE [nan |-> FALSE,
          sq |-> [n |-> (w.num - a.num) * (w.num - a.num), d |-> w.rad]]

\* np.sum(..., axis=1)[i] over the columns 1..j: NaN when a term is NaN.
RECURSIVE RowSumTo(_, _, _)
RowSumTo(row, ideal, j) ==
    IF j = 0 THEN [nan |-> FALSE, sq |-> R0]
    ELSE LET rest == RowSumTo(row, ideal, j - 1)
             term == SqDiff(row[j], ideal[j])
         IN  IF rest.nan \/ term.nan THEN [nan |-> TRUE, sq |-> R0]
             ELSE [nan |-> FALSE, sq |-> RAdd(rest.sq, term.sq)]

\* np.sqrt(np.sum((weighted_matrix - ideal)**2, axis=1)), lines 119-120: the
\* distance of each row, kept as the rational under the root.
Distance(weighted_matrix, ideal) ==
    [i \in 1..weighted_matrix.shape[1] |->
        RowSumTo(weighted_matrix.rows[i], ideal, weighted_matrix.shape[2])]

\* calculate_distances, lines 117-121.
calculate_distances(weighted_matrix, A_plus, A_minus) ==
    [D_plus |-> Distance(weighted_matrix, A_plus),
     D_minus |-> Distance(weighted_matrix, A_minus)]

DistIsZero(x) == ~x.nan /\ x.sq.n = 0

PrefNaN == [nan |-> TRUE, num |-> R0, den |-> <<R1, R0>>]

\* The float 0.0 as a preference value.
PrefZero == [nan |-> FALSE, num |-> R0, den |-> <<R1, R0>>]

\* x / (y + z) for distances, line 125; 0/0 is NaN (a non-zero x over a zero
\* sum does not occur: x is one of the addends).
Quot(x, y, z) ==
    IF x.nan \/ y.nan \/ z.nan THEN PrefNaN
    ELSE IF DistIsZero(y) /\ DistIsZero(z) THEN PrefNaN
    ELSE [nan |-> FALSE, num |-> x.sq, den |-> <<y.sq, z.sq>>]

\* np.nan_to_num(v, nan=0.0), line 126.
nan_to_num(v) == IF v.nan THEN PrefZero ELSE v

\* calculate_preference_values without the nan_to_num of line 126.
calculate_preference_values_Unsanitized(D_plus, D_minus) ==
    [i \in 1..Len(D_plus) |-> Quot(D_minus[i], D_plus[i], D_minus[i])]

\* calculate_preference_values, lines 123-126.
calculate_preference_values(D_plus, D_minus) ==
    [i \in 1..Len(D_plus) |-> nan_to_num(Quot(D_minus[i], D_plus[i], D_minus[i]))]

\* perform_topsis_calculation, lines 128-157.
perform_topsis_calculation(alternatives_data, criteria_weights, criteria_types) ==
    LET matrix == Array(alternatives_data)
        normalized_matrix == normalize_matrix(matrix)
        weighted_matrix == calculate_weighted_matrix(normalized_matrix, criteria_weights)
        ideal == find_ideal_solutions(weighted_matrix, criteria_types)
        dist == calculate_distances(weighted_matrix, ideal.A_plus, ideal.A_minus)
    IN  IF weighted_matrix.raised # "none" THEN Raise(weighted_matrix.raised)
        ELSE IF ideal.raised # "none" THEN Raise(ideal.raised)
        ELSE [raised |-> "none",
              normalized_matrix |-> normalized_matrix.rows,
              weighted_matrix |-> weighted_matrix.rows,
              A_plus |-> ideal.A_plus,
              A_minus |-> ideal.A_minus,
              D_plus |-> dist.D_plus,
              D_minus |-> dist.D_minus,
              preference_values |->
                  calculate_preference_values(dist.D_plus, dist.D_minus)]

--------------------------------------------------------------------------
(* Comparisons of preference values, exact. *)

PrefDefined(v) ==
    /\ ~v.nan
    /\ RLe(R0, v.num) /\ RLe(R0, v.den[1]) /\ RLe(R0, v.den[2])
    /\ ~(v.den[1].n = 0 /\ v.den[2].n = 0)

\* v <= w: sqrt(v.num) * (sqrt(w.den[1]) + sqrt(w.den[2]))
\*      <= sqrt(w.num) * (sqrt(v.den[1]) + sqrt(v.den[2])); false on a NaN.
PrefLe(v, w) ==
    /\ ~v.nan
    /\ ~w.nan
    /\ SurdSumLe(RMul(v.num, w.den[1]), RMul(v.num, w.den[2]),
                 RMul(w.num, v.den[1]), RMul(w.num, v.den[2]))

\* Python's x < y on two floats.
PrefLt(v, w) == ~v.nan /\ ~w.nan /\ ~PrefLe(w, v)

PrefEq(v, w) == PrefLe(v, w) /\ PrefLe(w, v)

PrefIsZero(v) == PrefDefined(v) /\ v.num.n = 0

\* 0 <= v <= 1.
PrefInUnit(v) ==
    /\ PrefDefined(v)
    /\ SurdSumLe(v.num, R0, v.den[1], v.den[2])

--------------------------------------------------------------------------
(* calculate_topsis, lines 394-434 *)

\* list.sort's insertion of x into an ascending run: after every element that
\* is not greater than x (the binary search of CPython's binarysort moves right
\* unless x < element), which is what makes the sort stable.
RECURSIVE InsertByKey(_, _)
InsertByKey(run, x) ==
    IF run = <<>> THEN <<x>>
    ELSE IF PrefLt(x[2], run[1][2]) THEN <<x>> \o run
    ELSE <<run[1]>> \o InsertByKey(Tail(run), x)

RECURSIVE SortByKey(_)
SortByKey(list) ==
    IF list = <<>> THEN <<>>
    ELSE InsertByKey(SortByKey(SubSeq(list, 1, Len(list) - 1)), list[Len(list)])

Reverse(list) == [i \in 1..Len(list) |-> list[Len(list) + 1 - i]]

\* An ascending sort reversed afterwards, sorted(...)[::-1]: equal keys end in
\* descending order of index.
SortedReverse_ThenReversed(list) == Reverse(SortByKey(list))

\* sorted(list, key=lambda x: x[1], reverse=True), line 431.  CPython reverses
\* the list, sorts it ascending and stably, and reverses the result, so equal
\* keys keep their original order.
SortedReverse(list) == Reverse(SortByKey(Reverse(list)))

\* enumerate(preference_values): pairs <<index from 0, value>>.
Enumerate(list) == [i \in 1..Len(list) |-> <<i - 1, list[i]>>]

\* Lines 429-432.
Ranking(preference_values) ==
    LET ranking == SortedReverse(Enumerate(preference_values))
    IN  [i \in 1..Len(ranking) |->
            [rank |-> i,
             alternative_index |-> ranking[i][1],
             value |-> ranking[i][2]]]

\* next((v.value for v in alt.values if v.criterion_id == crit.id), 0), line 418.
RECURSIVE ValueOf(_, _)
ValueOf(values, criterion_id) ==
    IF values = <<>> THEN 0
    ELSE IF values[1].criterion_id = criterion_id THEN values[1].value
    ELSE ValueOf(Tail(values), criterion_id)

\* The matrix of lines 411-420: one row per alternative, one cell per criterion.
AlternativesData(p) ==
    [i \in 1..Len(p.alternatives) |->
        [j \in 1..Len(p.criteria) |->
            ValueOf(p.alternatives[i].values, p.criteria[j].id)]]

CriteriaWeights(p) == [j \in 1..Len(p.criteria) |-> p.criteria[j].weight]

CriteriaTypes(p) == [j \in 1..Len(p.criteria) |-> p.criteria[j].criterion_type]

\* calculate_topsis for the caller's own project p, lines 403-434.  An
\* exception of the calculation is not caught: the framework answers 500.
calculate_topsis(p) ==
    IF Len(p.criteria) = 0 \/ Len(p.alternatives) = 0
    THEN [status |-> 400, error |-> "Project must have criteria and alternatives"]
    ELSE LET results == perform_topsis_calculation(
                            AlternativesData(p), CriteriaWeights(p), CriteriaTypes(p))
         IN  IF results.raised # "none"
             THEN [status |-> 500, error |-> results.raised]
             ELSE [status |-> 200,
                   results |-> results,
                   ranking |-> Ranking(results.preference_values)]

--------------------------------------------------------------------------
(* Inputs *)

SeqsUpTo(S, n) == UNION {[1..k -> S] : k \in 0..n}

\* criterion_type is any string (add_criterion stores what it is given, lines
\* 289-302); "other" stands for every string that is neither valid type.
CriterionTypes == {"benefit", "cost", "other"}

Weights == 0..MaxWeight

Values == 0..MaxVal

\* The criteria of a project with n of them; ids are the positions.
CriteriaOf(n) ==
    {[j \in 1..n |-> [id |-> j, criterion_type |-> t[j], weight |-> w[j]]] :
        t \in [1..n -> CriterionTypes], w \in [1..n -> Weights]}

\* The stored values of an alternative: one per criterion, or none at all for
\* an alternative added without 'values' (line 346).
StoredValues(n) ==
    {[j \in 1..n |-> [criterion_id |-> j, value |-> c[j]]] : c \in [1..n -> Values]}
        \cup {<<>>}

AlternativesOf(m, n) ==
    {[i \in 1..m |-> [values |-> v[i]]] : v \in [1..m -> StoredValues(n)]}

Projects ==
    UNION {[criteria : CriteriaOf(n), alternatives : AlternativesOf(m, n)] :
              m \in 0..MaxAlt, n \in 0..MaxCrit}

\* Rectangular matrices, the empty list and rows of no cells included.
Matrices ==
    UNION {[1..m -> [1..n -> Values]] : m \in 0..MaxAlt, n \in 0..MaxCrit}

Calls ==
    [alternatives_data : Matrices,
     criteria_weights : SeqsUpTo(Weights, MaxCrit + 1),
     criteria_types : SeqsUpTo(CriterionTypes, MaxCrit + 1)]

NoProject == [criteria |-> <<>>, alternatives |-> <<>>]
NoCall == [alternatives_data |-> <<>>, criteria_weights |-> <<>>, criteria_types |-> <<>>]
NotCalled == [raised |-> "not called"]
NoResponse == [status |-> 0]

\* The database after db.create_all() (line 553): every table empty.
EmptyDb ==
    [users |-> {}, projects |-> {}, criteria |-> {}, alternatives |-> {}, values |-> {}]

NoRequest == [endpoint |-> "none", user_id |-> 0, project_id |-> 0]

--------------------------------------------------------------------------
(* The state machines *)

\* A request to /api/projects/<id>/calculate for the stored project.
CalculateTopsis ==
    /\ response = NoResponse
    /\ response' = calculate_topsis(project)
    /\ UNCHANGED <<project, call, outcome, db, tokens, request>>

\* A call of perform_topsis_calculation with the arguments of `call`.
PerformTopsisCalculation ==
    /\ outcome = NotCalled
    /\ outcome' = perform_topsis_calculation(
                      call.alternatives_data, call.criteria_weights, call.criteria_types)
    /\ UNCHANGED <<project, call, response, db, tokens, request>>

Init ==
    /\ project \in Projects
    /\ call = NoCall
    /\ outcome = NotCalled
    /\ response = NoResponse
    /\ db = EmptyDb
    /\ tokens = {}
    /\ request = NoRequest

Next == CalculateTopsis

Spec == Init /\ [][Next]_vars

InitEngine ==
    /\ project = NoProject
    /\ call \in Calls
    /\ outcome = NotCalled
    /\ response = NoResponse
    /\ db = EmptyDb
    /\ tokens = {}
    /\ request = NoRequest

NextEngine == PerformTopsisCalculation

SpecEngine == InitEngine /\ [][NextEngine]_vars

--------------------------------------------------------------------------
(* What the claims speak about *)

ValidTypes == {"benefit", "cost"}

\* The project's criteria all have a valid type (weights are never negative here).
ProjectValid == \A j \in 1..Len(project.criteria) :
                    project.criteria[j].criterion_type \in ValidTypes

Answered == response.status = 200

NumAlt == Len(project.alternatives)
NumCrit == Len(project.criteria)

\* Column j of the raw matrix is all zero.
ZeroColumn(data, j) == \A i \in 1..Len(data) : data[i][j] = 0

\* Alternative i is at least as good as alternative k on every criterion.
Dominates(data, types, i, k) ==
    \A j \in 1..Len(types) :
        /\ types[j] = "benefit" => data[i][j] >= data[k][j]
        /\ types[j] = "cost" => data[i][j] <= data[k][j]

\* C1: the ranking of a result over m alternatives has m entries, its
\* alternative_index values are a permutation of 0..m-1, its ranks are 1..m in
\* list order, its values never increase along the list, and entries of equal
\* value appear in ascending order of original index.
C1_RankingSortedStable ==
    Answered =>
        LET r == response.ranking
        IN  /\ Len(r) = NumAlt
            /\ {r[i].alternative_index : i \in 1..Len(r)} = 0..(NumAlt - 1)
            /\ \A i \in 1..Len(r) : r[i].rank = i
            /\ \A i \in 1..(Len(r) - 1) : PrefLe(r[i + 1].value, r[i].value)
            /\ \A i, k \in 1..Len(r) :
                  (i < k /\ PrefEq(r[i].value, r[k].value))
                      => r[i].alternative_index < r[k].alternative_index

\* A ranking of three alternatives that is not the input order and holds a tie.
C1_Witness ==
    /\ Answered
    /\ NumAlt = 3
    /\ response.ranking[1].alternative_index = 2
    /\ PrefEq(response.ranking[2].value, response.ranking[3].value)
    /\ ~PrefEq(response.ranking[1].value, response.ranking[2].value)

\* C7: on valid input, an alternative that is at least as good as another on
\* every criterion (>= on benefit, <= on cost) has a preference value that is
\* not smaller.
C7_DominanceMonotone ==
    (Answered /\ ProjectValid) =>
        \A i, k \in 1..NumAlt :
            Dominates(AlternativesData(project), CriteriaTypes(project), i, k)
                => PrefLe(response.results.preference_values[k],
                          response.results.preference_values[i])

\* Three alternatives, a benefit and a cost criterion, and one alternative
\* that dominates another and is strictly preferred to it.
C7_Witness ==
    /\ Answered
    /\ ProjectValid
    /\ NumAlt = 3
    /\ \E j \in 1..NumCrit : project.criteria[j].criterion_type = "benefit"
    /\ \E j \in 1..NumCrit : project.criteria[j].criterion_type = "cost"
    /\ \E i, k \in 1..NumAlt :
          /\ Dominates(AlternativesData(project), CriteriaTypes(project), i, k)
          /\ PrefLt(response.results.preference_values[k],
                    response.results.preference_values[i])

\* C8: on valid input, the degenerate cases included, every preference value
\* is a defined number v with 0 <= v <= 1.
C8_PreferenceInUnitInterval ==
    (Answered /\ ProjectValid) =>
        \A i \in 1..NumAlt : PrefInUnit(response.results.preference_values[i])

\* A result for an input with an all-zero column, whose distances are NaN.
C8_Witness ==
    /\ Answered
    /\ ProjectValid
    /\ NumAlt >= 2
    /\ \E j \in 1..NumCrit : ZeroColumn(AlternativesData(project), j)
    /\ \E j \in 1..NumCrit : ~ZeroColumn(AlternativesData(project), j)
    /\ response.results.D_minus[1].nan
    /\ PrefInUnit(response.results.preference_values[1])

--------------------------------------------------------------------------
(* Claims about a direct call of perform_topsis_calculation *)

Called == outcome # NotCalled

Returned == Called /\ outcome.raised = "none"

CallRows == Len(call.alternatives_data)

\* n of an m x n matrix with m >= 1.
CallCols == Len(call.alternatives_data[1])

CallNonEmpty == CallRows >= 1 /\ CallCols >= 1

\* No column of the matrix is all zero: the normalization divides by no zero.
CallNoZeroColumn == \A j \in 1..CallCols : ~ZeroColumn(call.alternatives_data, j)

CallTypesValid == \A j \in 1..Len(call.criteria_types) :
                      call.criteria_types[j] \in ValidTypes

\* C2: for an m x n matrix (m, n >= 1) and a weight vector whose length is not
\* n, perform_topsis_calculation fails and returns no result.  (Stated for
\* calls whose criterion types are valid and n in number, on a matrix without
\* an all-zero column.)
C2_WrongWeightLengthFails ==
    (/\ Called
     /\ CallNonEmpty
     /\ CallNoZeroColumn
     /\ CallTypesValid
     /\ Len(call.criteria_types) = CallCols
     /\ Len(call.criteria_weights) # CallCols)
        => outcome.raised # "none"

\* C3: an input with a criterion type that is neither 'benefit' nor 'cost'
\* fails and returns no result.  (Stated for calls of matching shapes, on a
\* matrix without an all-zero column.)
C3_InvalidTypeFails ==
    (/\ Called
     /\ CallNonEmpty
     /\ CallNoZeroColumn
     /\ Len(call.criteria_weights) = CallCols
     /\ Len(call.criteria_types) = CallCols
     /\ ~CallTypesValid)
        => outcome.raised # "none"

\* C5: for an m x n matrix (m, n >= 1) and a criterion-type vector whose length
\* is not n, the engine fails and returns no result.  (Stated for calls whose
\* weights are n in number and whose types are valid, on a matrix without an
\* all-zero column.)
C5_WrongTypeLengthFails ==
    (/\ Called
     /\ CallNonEmpty
     /\ CallNoZeroColumn
     /\ CallTypesValid
     /\ Len(call.criteria_weights) = CallCols
     /\ Len(call.criteria_types) # CallCols)
        => outcome.raised # "none"

\* C6: for an empty matrix (m = 0, or m >= 1 and n = 0) the calculation fails
\* and returns no result.
C6_EmptyMatrixFails ==
    (Called /\ ~CallNonEmpty) => outcome.raised # "none"

--------------------------------------------------------------------------
(* Claims about the degenerate numeric cases, on the endpoint's result *)

\* C4: for a matrix with an all-zero column the normalization raises nothing
\* and every entry of that column in the normalized matrix is exactly 0.
C4_ZeroColumnNormalizesToZero ==
    (response # NoResponse /\ NumAlt >= 1 /\ NumCrit >= 1) =>
        /\ Answered
        /\ \A j \in 1..NumCrit :
              ZeroColumn(AlternativesData(project), j) =>
                  \A i \in 1..NumAlt :
                      EntryIsZero(response.results.normalized_matrix[i][j])

\* C9: an alternative whose D_plus + D_minus is 0 gets the preference value 0;
\* in particular a single alternative has D_plus = D_minus = 0, preference
\* value 0, and is ranked first.
C9_ZeroDistancePreferenceZero ==
    Answered =>
        /\ \A i \in 1..NumAlt :
              (DistIsZero(response.results.D_plus[i])
                  /\ DistIsZero(response.results.D_minus[i]))
                  => PrefIsZero(response.results.preference_values[i])
        /\ NumAlt = 1 =>
              /\ DistIsZero(response.results.D_plus[1])
              /\ DistIsZero(response.results.D_minus[1])
              /\ PrefIsZero(response.results.preference_values[1])
              /\ Len(response.ranking) = 1
              /\ response.ranking[1].rank = 1
              /\ response.ranking[1].alternative_index = 0

\* x is an entry of column j that no entry of the column exceeds.
IsColMax(w, j, x) ==
    /\ \E i \in 1..Len(w) : EntryEq(w[i][j], x)
    /\ \A i \in 1..Len(w) : EntryLe(w[i][j], x)

IsColMin(w, j, x) ==
    /\ \E i \in 1..Len(w) : EntryEq(w[i][j], x)
    /\ \A i \in 1..Len(w) : EntryLe(x, w[i][j])

\* C10: A_plus[j] is the maximum and A_minus[j] the minimum of column j of the
\* weighted matrix for a benefit criterion, and the other way round for a cost
\* criterion, so that every entry of the column lies between the two.
C10_IdealsAreColumnExtremes ==
    Answered =>
        \A j \in 1..NumCrit :
            LET w == response.results.weighted_matrix
                t == project.criteria[j].criterion_type
            IN  /\ t = "benefit" =>
                      /\ IsColMax(w, j, response.results.A_plus[j])
                      /\ IsColMin(w, j, response.results.A_minus[j])
                /\ t = "cost" =>
                      /\ IsColMin(w, j, response.results.A_plus[j])
                      /\ IsColMax(w, j, response.results.A_minus[j])


\* What holds of the ideal points where the code's arithmetic stays defined:
\* the statement of C10 for the columns that hold no NaN.
IdealsOfDefinedColumns ==
    Answered =>
        \A j \in 1..NumCrit :
            LET w == response.results.weighted_matrix
                t == project.criteria[j].criterion_type
            IN  ~ZeroColumn(AlternativesData(project), j) =>
                    /\ t = "benefit" =>
                          /\ IsColMax(w, j, response.results.A_plus[j])
                          /\ IsColMin(w, j, response.results.A_minus[j])
                    /\ t # "benefit" =>
                          /\ IsColMin(w, j, response.results.A_plus[j])
                          /\ IsColMax(w, j, response.results.A_minus[j])

\* calculate_topsis refuses a project without criteria or without alternatives
\* (the half of C6 that is about the endpoint).
EmptyProjectRefused ==
    (response # NoResponse /\ (NumAlt = 0 \/ NumCrit = 0)) => response.status = 400


--------------------------------------------------------------------------
(* The HTTP routes over the database, lines 160-434 *)

\* Bounds of the route model: the highest row id of each table.
MaxUserRows == 2
MaxProjectRows == 2
MaxCriterionRows == 1
MaxAlternativeRows == 1
MaxValueRows == 1

\* The value data.get(key) gives for an absent key; like '' it is falsy.
None == ""

Get(data, key) == IF key \in DOMAIN data THEN data[key] ELSE None

\* .first() of a query that matches no row.
NoRow == [id |-> 0]

First(rows) ==
    IF rows = {} THEN NoRow
    ELSE CHOOSE r \in rows : \A o \in rows : r.id <= o.id

\* The integer primary key SQLite gives a new row: one more than the highest
\* id in the table.
NextId(rows) ==
    IF rows = {} THEN 1
    ELSE 1 + (CHOOSE m \in {r.id : r \in rows} : \A r \in rows : r.id <= m)

\* The rows of a relationship, in the order the database returns them.
RECURSIVE RowsById(_)
RowsById(rows) ==
    IF rows = {} THEN <<>>
    ELSE LET r == First(rows) IN <<r>> \o RowsById(rows \ {r})

\* bcrypt: a hash matches the password it was generated from and no other.
generate_password_hash(password) == <<"bcrypt", password>>

check_password_hash(pw_hash, password) == pw_hash = generate_password_hash(password)

\* Project.query.filter_by(id=project_id) with no filter on the owner.
FindProject_AnyOwner(d, project_id, user_id) ==
    First({p \in d.projects : p.id = project_id})

\* Project.query.filter_by(id=project_id, user_id=user_id).first(): the first
\* statement of every route on a project.
FindProject(d, project_id, user_id) ==
    First({p \in d.projects : p.id = project_id /\ p.user_id = user_id})

ProjectNotFound == [status |-> 404, error |-> "Project not found"]

\* The relationships of the models, lines 69-84.
CriteriaOfProject(d, p) == {c \in d.criteria : c.project_id = p.id}

AlternativesOfProject(d, p) == {a \in d.alternatives : a.project_id = p.id}

ValuesOfAlternative(d, a) == {v \in d.values : v.alternative_id = a.id}

ValuesOfCriterion(d, c) == {v \in d.values : v.criterion_id = c.id}

\* db.session.delete with cascade='all, delete-orphan': the row goes, and with
\* it the rows of its relationships.
DeleteCriteria(d, cs) ==
    [d EXCEPT !.criteria = @ \ cs,
              !.values = @ \ UNION {ValuesOfCriterion(d, c) : c \in cs}]

DeleteAlternatives(d, as) ==
    [d EXCEPT !.alternatives = @ \ as,
              !.values = @ \ UNION {ValuesOfAlternative(d, a) : a \in as}]

DeleteProjectRow(d, p) ==
    LET d1 == DeleteCriteria(d, CriteriaOfProject(d, p))
        d2 == DeleteAlternatives(d1, AlternativesOfProject(d, p))
    IN  [d2 EXCEPT !.projects = @ \ {p}]

\* register, lines 161-177.
register(d, data) ==
    LET email == Get(data, "email")
        password == Get(data, "password")
    IN  IF email = None \/ password = None
        THEN [db |-> d,
              response |-> [status |-> 400, error |-> "Email and password are required"]]
        ELSE IF \E u \in d.users : u.email = email
        THEN [db |-> d,
              response |-> [status |-> 400, error |-> "Email already registered"]]
        ELSE [db |-> [d EXCEPT !.users = @ \cup
                         {[id |-> NextId(d.users), email |-> email,
                           password |-> generate_password_hash(password)]}],
              response |-> [status |-> 201, message |-> "User registered successfully"]]

\* login, lines 180-197.  The access token is modelled by the identity it
\* carries.
login(d, data) ==
    LET email == Get(data, "email")
        password == Get(data, "password")
        user == First({u \in d.users : u.email = email})
    IN  IF user # NoRow /\ check_password_hash(user.password, password)
        THEN [db |-> d,
              response |-> [status |-> 200, access_token |-> user.id,
                            user |-> [id |-> user.id, email |-> user.email]]]
        ELSE [db |-> d,
              response |-> [status |-> 401, error |-> "Invalid credentials"]]

\* create_project, lines 214-231.
create_project(d, user_id, data) ==
    LET name == Get(data, "name")
    IN  IF name = None
        THEN [db |-> d,
              response |-> [status |-> 400, error |-> "Project name is required"]]
        ELSE LET p == [id |-> NextId(d.projects), user_id |-> user_id, name |-> name]
             IN  [db |-> [d EXCEPT !.projects = @ \cup {p}],
                  response |-> [status |-> 201, id |-> p.id, name |-> p.name]]

\* The lists of lines 242-256.
CriteriaJson(d, p) ==
    LET cs == RowsById(CriteriaOfProject(d, p))
    IN  [j \in 1..Len(cs) |->
            [id |-> cs[j].id, name |-> cs[j].name,
             criterion_type |-> cs[j].criterion_type, weight |-> cs[j].weight]]

ValuesJson(d, a) ==
    LET vs == RowsById(ValuesOfAlternative(d, a))
    IN  [k \in 1..Len(vs) |-> [criterion_id |-> vs[k].criterion_id, value |-> vs[k].value]]

AlternativesJson(d, p) ==
    LET as == RowsById(AlternativesOfProject(d, p))
    IN  [i \in 1..Len(as) |->
            [id |-> as[i].id, name |-> as[i].name, values |-> ValuesJson(d, as[i])]]

\* get_project, lines 235-263.
get_project(d, user_id, project_id) ==
    LET p == FindProject(d, project_id, user_id)
    IN  IF p = NoRow
        THEN [db |-> d, response |-> ProjectNotFound]
        ELSE [db |-> d,
              response |-> [status |-> 200, id |-> p.id, name |-> p.name,
                            criteria |-> CriteriaJson(d, p),
                            alternatives |-> AlternativesJson(d, p)]]

\* delete_project, lines 267-278.
delete_project(d, user_id, project_id) ==
    LET p == FindProject(d, project_id, user_id)
    IN  IF p = NoRow
        THEN [db |-> d, response |-> ProjectNotFound]
        ELSE [db |-> DeleteProjectRow(d, p),
              response |-> [status |-> 200, message |-> "Project deleted successfully"]]

\* add_criterion, lines 282-312.  A weight of 0 is present: only an absent
\* weight is refused.
add_criterion(d, user_id, project_id, data) ==
    LET p == FindProject(d, project_id, user_id)
        name == Get(data, "name")
        criterion_type == Get(data, "criterion_type")
    IN  IF p = NoRow
        THEN [db |-> d, response |-> ProjectNotFound]
        ELSE IF name = None \/ criterion_type = None \/ "weight" \notin DOMAIN data
        THEN [db |-> d,
              response |-> [status |-> 400,
                            error |-> "Name, criterion_type, and weight are required"]]
        ELSE LET c == [id |-> NextId(d.criteria), project_id |-> project_id,
                       name |-> name, criterion_type |-> criterion_type,
                       weight |-> data.weight]
             IN  [db |-> [d EXCEPT !.criteria = @ \cup {c}],
                  response |-> [status |-> 201, id |-> c.id, name |-> c.name,
                                criterion_type |-> c.criterion_type,
                                weight |-> c.weight]]

\* delete_criterion, lines 316-333.
delete_criterion(d, user_id, project_id, criterion_id) ==
    LET p == FindProject(d, project_id, user_id)
        c == First({x \in d.criteria : x.id = criterion_id /\ x.project_id = project_id})
    IN  IF p = NoRow
        THEN [db |-> d, response |-> ProjectNotFound]
        ELSE IF c = NoRow
        THEN [db |-> d, response |-> [status |-> 404, error |-> "Criterion not found"]]
        ELSE [db |-> DeleteCriteria(d, {c}),
              response |-> [status |-> 200, message |-> "Criterion deleted successfully"]]

\* add_alternative, lines 337-371: the alternative, then one value row for
\* each entry of 'values', whatever criterion it names.
add_alternative(d, user_id, project_id, data) ==
    LET p == FindProject(d, project_id, user_id)
        name == Get(data, "name")
        values == IF "values" \in DOMAIN data THEN data.values ELSE <<>>
    IN  IF p = NoRow
        THEN [db |-> d, response |-> ProjectNotFound]
        ELSE IF name = None
        THEN [db |-> d,
              response |-> [status |-> 400, error |-> "Alternative name is required"]]
        ELSE LET a == [id |-> NextId(d.alternatives), project_id |-> project_id,
                       name |-> name]
                 rows == {[id |-> NextId(d.values) + k - 1,
                           alternative_id |-> a.id,
                           criterion_id |-> values[k].criterion_id,
                           value |-> values[k].value] : k \in 1..Len(values)}
             IN  [db |-> [d EXCEPT !.alternatives = @ \cup {a},
                                   !.values = @ \cup rows],
                  response |-> [status |-> 201, id |-> a.id, name |-> a.name,
                                values |-> values]]

\* delete_alternative, lines 375-392.
delete_alternative(d, user_id, project_id, alternative_id) ==
    LET p == FindProject(d, project_id, user_id)
        a == First({x \in d.alternatives :
                        x.id = alternative_id /\ x.project_id = project_id})
    IN  IF p = NoRow
        THEN [db |-> d, response |-> ProjectNotFound]
        ELSE IF a = NoRow
        THEN [db |-> d, response |-> [status |-> 404, error |-> "Alternative not found"]]
        ELSE [db |-> DeleteAlternatives(d, {a}),
              response |-> [status |-> 200, message |-> "Alternative deleted successfully"]]

\* The project as lines 403-420 read it through its relationships.
LoadProject(d, p) ==
    LET as == RowsById(AlternativesOfProject(d, p))
    IN  [criteria |-> RowsById(CriteriaOfProject(d, p)),
         alternatives |->
             [i \in 1..Len(as) |-> [values |-> ValuesJson(d, as[i])]]]

\* The route of calculate_topsis, lines 396-434: the lookup of the project,
\* then the calculation on what it holds.
calculate_topsis_route(d, user_id, project_id) ==
    LET p == FindProject(d, project_id, user_id)
    IN  IF p = NoRow
        THEN [db |-> d, response |-> ProjectNotFound]
        ELSE [db |-> d, response |-> calculate_topsis(LoadProject(d, p))]

--------------------------------------------------------------------------
(* The requests *)

Emails == {"a@example.org", "b@example.org"}

RegisterData ==
    {[email |-> e, password |-> pw] : e \in Emails, pw \in {"secret", None}}

LoginData ==
    {[email |-> e, password |-> pw] : e \in Emails, pw \in {"secret", "guess"}}

ProjectData == {[name |-> n] : n \in {"project", None}}

CriterionData ==
    {[name |-> n, criterion_type |-> t, weight |-> w] :
        n \in {"criterion"}, t \in {"benefit", "cost"}, w \in Weights}

CriterionDataNoWeight == {[name |-> "criterion", criterion_type |-> "benefit"]}

ProjectIds == 1..MaxProjectRows

CriterionIds == 1..MaxCriterionRows

AlternativeIds == 1..MaxAlternativeRows

ValueData == [criterion_id : CriterionIds, value : Values]

AlternativeData ==
    {[name |-> n, values |-> vs] :
        n \in {"alternative", None}, vs \in SeqsUpTo(ValueData, MaxValueRows)}

AlternativeDataNoValues == {[name |-> "alternative"]}

Request(endpoint, user_id, project_id) ==
    [endpoint |-> endpoint, user_id |-> user_id, project_id |-> project_id]

\* What a route leaves behind: the committed database and the answer.
Answer(r) ==
    /\ db' = r.db
    /\ response' = r.response
    /\ UNCHANGED <<project, call, outcome>>

Register ==
    \E data \in RegisterData :
        LET r == register(db, data)
        IN  /\ r.db = db \/ NextId(db.users) <= MaxUserRows
            /\ Answer(r)
            /\ request' = Request("register", 0, 0)
            /\ UNCHANGED tokens

\* create_access_token(identity=user.id), line 187.
Login ==
    \E data \in LoginData :
        LET r == login(db, data)
        IN  /\ Answer(r)
            /\ request' = Request("login", 0, 0)
            /\ tokens' = IF r.response.status = 200
                         THEN tokens \cup {r.response.access_token}
                         ELSE tokens

\* @jwt_required() and get_jwt_identity(): the routes below run with the
\* identity of a token that login issued.
CreateProject ==
    \E user_id \in tokens, data \in ProjectData :
        LET r == create_project(db, user_id, data)
        IN  /\ r.db = db \/ NextId(db.projects) <= MaxProjectRows
            /\ Answer(r)
            /\ request' = Request("create_project", user_id, 0)
            /\ UNCHANGED tokens

GetProject ==
    \E user_id \in tokens, project_id \in ProjectIds :
        /\ Answer(get_project(db, user_id, project_id))
        /\ request' = Request("get_project", user_id, project_id)
        /\ UNCHANGED tokens

DeleteProject ==
    \E user_id \in tokens, project_id \in ProjectIds :
        /\ Answer(delete_project(db, user_id, project_id))
        /\ request' = Request("delete_project", user_id, project_id)
        /\ UNCHANGED tokens

AddCriterionWith(data) ==
    \E user_id \in tokens, project_id \in ProjectIds :
        LET r == add_criterion(db, user_id, project_id, data)
        IN  /\ r.db = db \/ NextId(db.criteria) <= MaxCriterionRows
            /\ Answer(r)
            /\ request' = Request("add_criterion", user_id, project_id)
            /\ UNCHANGED tokens

AddCriterion ==
    \/ \E data \in CriterionData : AddCriterionWith(data)
    \/ \E data \in CriterionDataNoWeight : AddCriterionWith(data)

DeleteCriterion ==
    \E user_id \in tokens, project_id \in ProjectIds, criterion_id \in CriterionIds :
        /\ Answer(delete_criterion(db, user_id, project_id, criterion_id))
        /\ request' = Request("delete_criterion", user_id, project_id)
        /\ UNCHANGED tokens

AddAlternativeWith(data) ==
    \E user_id \in tokens, project_id \in ProjectIds :
        LET r == add_alternative(db, user_id, project_id, data)
        IN  /\ \/ r.db = db
               \/ /\ NextId(db.alternatives) <= MaxAlternativeRows
                  /\ \A v \in r.db.values : v.id <= MaxValueRows
            /\ Answer(r)
            /\ request' = Request("add_alternative", user_id, project_id)
            /\ UNCHANGED tokens

AddAlternative ==
    \/ \E data \in AlternativeData : AddAlternativeWith(data)
    \/ \E data \in AlternativeDataNoValues : AddAlternativeWith(data)

DeleteAlternative ==
    \E user_id \in tokens, project_id \in ProjectIds, alternative_id \in AlternativeIds :
        /\ Answer(delete_alternative(db, user_id, project_id, alternative_id))
        /\ request' = Request("delete_alternative", user_id, project_id)
        /\ UNCHANGED tokens

CalculateTopsisRoute ==
    \E user_id \in tokens, project_id \in ProjectIds :
        /\ Answer(calculate_topsis_route(db, user_id, project_id))
        /\ request' = Request("calculate_topsis", user_id, project_id)
        /\ UNCHANGED tokens

InitApi ==
    /\ project = NoProject
    /\ call = NoCall
    /\ outcome = NotCalled
    /\ response = NoResponse
    /\ db = EmptyDb
    /\ tokens = {}
    /\ request = NoRequest

NextApi ==
    \/ Register
    \/ Login
    \/ CreateProject
    \/ GetProject
    \/ DeleteProject
    \/ AddCriterion
    \/ DeleteCriterion
    \/ AddAlternative
    \/ DeleteAlternative
    \/ CalculateTopsisRoute

SpecApi == InitApi /\ [][NextApi]_vars

--------------------------------------------------------------------------
(* C11 *)

ProjectScoped ==
    {"get_project", "delete_project", "add_criterion", "delete_criterion",
     "add_alternative", "delete_alternative", "calculate_topsis"}

\* The project the request names is stored and belongs to the identity of
\* the request.
OwnsProject(d, r) ==
    \E p \in d.projects : p.id = r.project_id /\ p.user_id = r.user_id

\* C11: a request to a route on a project, made with the identity of a user
\* who does not own a stored project of that id, is answered 404 'Project
\* not found' and nothing else, and the stored projects, criteria,
\* alternatives and values are after it what they were before it.
C11_ForeignProjectNotFound ==
    [][(request'.endpoint \in ProjectScoped /\ ~OwnsProject(db, request'))
          => /\ response' = ProjectNotFound
             /\ db'.projects = db.projects
             /\ db'.criteria = db.criteria
             /\ db'.alternatives = db.alternatives
             /\ db'.values = db.values]_vars

\* A user has just asked to delete a project of another user that holds a
\* criterion, an alternative and a value, and got 404.
C11_Witness ==
    /\ request.endpoint = "delete_project"
    /\ response = ProjectNotFound
    /\ \E p \in db.projects :
          /\ p.id = request.project_id
          /\ p.user_id # request.user_id
          /\ CriteriaOfProject(db, p) # {}
          /\ \E a \in AlternativesOfProject(db, p) : ValuesOfAlternative(db, a) # {}

==========================================================================
